---- MODULE Spec2Model ----
(***************************************************************************)
(* Rename / undo transaction log of the Allihoopa archive tool.            *)
(*                                                                         *)
(* src/allihoopa_tool.py   : build_rename_ops, apply_rename_ops,           *)
(*                           undo_rename_from_log and their helpers        *)
(* src/rename_allihoopa.py : apply_ops, undo_from_log (the older script;   *)
(*                           it shares the default journal path            *)
(*                           <root>/rename_log.jsonl with the tool)        *)
(*                                                                         *)
(* Strings are sequences of one-character strings.  A path is a record     *)
(* [dir, name]: the piece folder (its short_id) and the file name in it.   *)
(***************************************************************************)
EXTENDS Integers, Sequences, FiniteSets, TLC

\* ------------------------------------------------------------------------
\* Bounds of the model
\* ------------------------------------------------------------------------
MaxPieces == 2      \* pieces in the manifest
MaxRuns == 2        \* invocations (rename or undo) in one behaviour
MaxFaults == 1      \* failing system calls (link, symlink, copy, unlink)
MaxExternal == 1    \* changes made to a piece folder by somebody else

\* ------------------------------------------------------------------------
\* Characters and strings
\* ------------------------------------------------------------------------
\* The elements of a sequence
Range(s) == { s[k] : k \in 1..Len(s) }

LowerAlpha == <<"a","b","c","d","e","f","g","h","i","j","k","l","m",
                "n","o","p","q","r","s","t","u","v","w","x","y","z">>
UpperAlpha == <<"A","B","C","D","E","F","G","H","I","J","K","L","M",
                "N","O","P","Q","R","S","T","U","V","W","X","Y","Z">>

IndexIn(c, alpha) == CHOOSE k \in 1..Len(alpha) : alpha[k] = c
IsIn(c, alpha) == \E k \in 1..Len(alpha) : alpha[k] = c

\* str.upper() / str.lower(), character by character
UpperChar(c) == IF IsIn(c, LowerAlpha) THEN UpperAlpha[IndexIn(c, LowerAlpha)] ELSE c
LowerChar(c) == IF IsIn(c, UpperAlpha) THEN LowerAlpha[IndexIn(c, UpperAlpha)] ELSE c
Upper(s) == [k \in 1..Len(s) |-> UpperChar(s[k])]
Lower(s) == [k \in 1..Len(s) |-> LowerChar(s[k])]

\* WS_RE = \s+ : the whitespace characters
Whitespace == {" ", "\t", "\n", "\r", "\f"}
\* INVALID_WIN_RE = [<>:"/\\|?*\u0000-\u001F]
InvalidWin == {"<", ">", ":", "\"", "/", "\\", "|", "?", "*", "\t", "\n", "\r", "\f"}

WIN_RESERVED ==
    { <<"C","O","N">>, <<"P","R","N">>, <<"A","U","X">>, <<"N","U","L">> }
    \cup { <<"C","O","M">> \o <<d>> : d \in {"1","2","3","4","5","6","7","8","9"} }
    \cup { <<"L","P","T">> \o <<d>> : d \in {"1","2","3","4","5","6","7","8","9"} }

RECURSIVE LStrip(_, _)
LStrip(s, cs) == IF s /= <<>> /\ Head(s) \in cs THEN LStrip(Tail(s), cs) ELSE s

RECURSIVE RStrip(_, _)
RStrip(s, cs) ==
    IF s /= <<>> /\ s[Len(s)] \in cs THEN RStrip(SubSeq(s, 1, Len(s) - 1), cs) ELSE s

\* str.strip()
Strip(s) == RStrip(LStrip(s, Whitespace), Whitespace)

\* re.sub(<one or more characters of cs>, r, s): every maximal run becomes r
RECURSIVE SubRuns(_, _, _)
SubRuns(s, cs, r) ==
    IF s = <<>> THEN <<>>
    ELSE IF Head(s) \in cs THEN <<r>> \o SubRuns(LStrip(s, cs), cs, r)
    ELSE <<Head(s)>> \o SubRuns(Tail(s), cs, r)

\* re.sub(<one character of cs>, r, s)
SubEach(s, cs, r) == [k \in 1..Len(s) |-> IF s[k] \in cs THEN r ELSE s[k]]

Untitled == <<"u","n","t","i","t","l","e","d">>

DefaultMaxLen == 180

safe_filename_base(s0, max_len, preserve_blanks) ==
    LET s1 == Strip(s0)
        s2 == IF preserve_blanks
              THEN SubRuns(s1, Whitespace, " ")
              ELSE SubRuns(SubRuns(s1, Whitespace, "_"), {"_"}, "_")
        s3 == IF s2 = <<>> THEN Untitled ELSE s2
        s4 == SubEach(s3, InvalidWin, "_")
        s5 == RStrip(s4, {" ", "."})
        s6 == IF Upper(s5) \in WIN_RESERVED THEN <<"_">> \o s5 \o <<"_">> ELSE s5
        s7 == IF Len(s6) > max_len
              THEN RStrip(SubSeq(s6, 1, max_len), {" ", "."})
              ELSE s6
    IN  IF s7 = <<>> THEN Untitled ELSE s7

\* ------------------------------------------------------------------------
\* pathlib: names, stems, suffixes
\* ------------------------------------------------------------------------
\* Position of the last "." of a name, 0 if there is none
LastDot(n) ==
    IF \E k \in 1..Len(n) : n[k] = "."
    THEN CHOOSE k \in 1..Len(n) : n[k] = "." /\ \A j \in (k+1)..Len(n) : n[j] /= "."
    ELSE 0

\* PurePath.suffix: from the last dot, unless the dot is first or last
Suffix(n) == LET i == LastDot(n) IN IF 1 < i /\ i < Len(n) THEN SubSeq(n, i, Len(n)) ELSE <<>>
\* PurePath.stem
Stem(n) == SubSeq(n, 1, Len(n) - Len(Suffix(n)))

\* folder / name
Join(folder, n) == [dir |-> folder, name |-> n]

\* str(i) for the small numbers of a disambiguator
Digits == <<"0","1","2","3","4","5","6","7","8","9">>
RECURSIVE IntToStr(_)
IntToStr(i) == IF i < 10 THEN <<Digits[i + 1]>> ELSE IntToStr(i \div 10) \o <<Digits[(i % 10) + 1]>>

\* ------------------------------------------------------------------------
\* The file system: a function from the existing paths to their entries
\* ------------------------------------------------------------------------
\* A regular file is an inode with content; hardlinks share the inode.
File(ino, data) == [t |-> "file", ino |-> ino, data |-> data, to |-> <<>>]
Dir == [t |-> "dir", ino |-> 0, data |-> 0, to |-> <<>>]
\* A relative symbolic link: to a name of the same folder, or to "."
Symlink(to) == [t |-> "symlink", ino |-> 0, data |-> 0, to |-> to]
Dot == <<".">>

Put(f, p, node) == [q \in DOMAIN f \cup {p} |-> IF q = p THEN node ELSE f[q]]
Remove(f, p) == [q \in DOMAIN f \ {p} |-> f[q]]

\* os.path.lexists
LExists(f, p) == p \in DOMAIN f

\* os.stat: what a path leads to, following symbolic links
RECURSIVE StatNode(_, _, _)
StatNode(f, p, depth) ==
    IF p \notin DOMAIN f THEN [t |-> "none", ino |-> 0, data |-> 0, to |-> <<>>]
    ELSE IF f[p].t /= "symlink" THEN f[p]
    ELSE IF f[p].to = Dot THEN Dir
    ELSE IF depth = 0 THEN [t |-> "none", ino |-> 0, data |-> 0, to |-> <<>>]
    ELSE StatNode(f, Join(p.dir, f[p].to), depth - 1)

Stat(f, p) == StatNode(f, p, Cardinality(DOMAIN f))

\* Path.exists(), Path.is_file(), Path.is_dir(), Path.is_symlink()
PathExists(f, p) == Stat(f, p).t /= "none"
IsFile(f, p) == Stat(f, p).t = "file"
IsDir(f, p) == Stat(f, p).t = "dir"
IsSymlink(f, p) == p \in DOMAIN f /\ f[p].t = "symlink"

\* Path.rename(): the outcomes the operating system can produce.  POSIX
\* replaces an existing target that is not a directory (and does nothing when
\* both names are the same inode); Windows refuses an existing target.
OsRename(f, src, dst) ==
    IF src \notin DOMAIN f THEN { [ok |-> FALSE, fs |-> f] }
    ELSE IF dst \notin DOMAIN f THEN { [ok |-> TRUE, fs |-> Put(Remove(f, src), dst, f[src])] }
    ELSE IF (f[src].t = "dir") /= (f[dst].t = "dir") THEN { [ok |-> FALSE, fs |-> f] }
    ELSE IF f[src].t = "file" /\ f[dst].t = "file" /\ f[src].ino = f[dst].ino
         THEN { [ok |-> TRUE, fs |-> f], [ok |-> FALSE, fs |-> f] }
    ELSE { [ok |-> TRUE, fs |-> Put(Remove(f, src), dst, f[src])], [ok |-> FALSE, fs |-> f] }

\* Path.unlink(): the entry goes, or the call fails (a fault)
OsUnlink(f, p, mayFail) ==
    (IF p \in DOMAIN f /\ f[p].t /= "dir"
     THEN { [ok |-> TRUE, fs |-> Remove(f, p), faults |-> 0] } ELSE {})
    \cup (IF p \notin DOMAIN f \/ f[p].t = "dir"
          THEN { [ok |-> FALSE, fs |-> f, faults |-> 0] } ELSE {})
    \cup (IF mayFail /\ p \in DOMAIN f /\ f[p].t /= "dir"
          THEN { [ok |-> FALSE, fs |-> f, faults |-> 1] } ELSE {})

\* A fresh inode number
Inodes(f) == { f[p].ino : p \in DOMAIN f }
FreshIno(f) == CHOOSE n \in 1..(Cardinality(DOMAIN f) + 1) : n \notin Inodes(f)

\* os.link(new, old): a second name for the inode of new
OsLink(f, new, old, mayFail) ==
    LET can == old \notin DOMAIN f /\ new \in DOMAIN f /\ f[new].t = "file" IN
    (IF can THEN { [ok |-> TRUE, fs |-> Put(f, old, f[new]), faults |-> 0] } ELSE {})
    \cup (IF ~can THEN { [ok |-> FALSE, fs |-> f, faults |-> 0] } ELSE {})
    \cup (IF can /\ mayFail THEN { [ok |-> FALSE, fs |-> f, faults |-> 1] } ELSE {})

\* os.symlink(rel, old) with rel = os.path.relpath(new, old.parent)
OsSymlink(f, new, old, mayFail) ==
    LET can == old \notin DOMAIN f IN
    (IF can THEN { [ok |-> TRUE, fs |-> Put(f, old, Symlink(new.name)), faults |-> 0] } ELSE {})
    \cup (IF ~can THEN { [ok |-> FALSE, fs |-> f, faults |-> 0] } ELSE {})
    \cup (IF can /\ mayFail THEN { [ok |-> FALSE, fs |-> f, faults |-> 1] } ELSE {})

\* shutil.copy2(new, old): a new inode with the bytes of new
OsCopy(f, new, old, mayFail) ==
    LET can == old \notin DOMAIN f /\ IsFile(f, new) IN
    (IF can THEN { [ok |-> TRUE, faults |-> 0,
                    fs |-> Put(f, old, File(FreshIno(f), Stat(f, new).data))] } ELSE {})
    \cup (IF ~can THEN { [ok |-> FALSE, fs |-> f, faults |-> 0] } ELSE {})
    \cup (IF can /\ mayFail THEN { [ok |-> FALSE, fs |-> f, faults |-> 1] } ELSE {})

\* ensure_compat_link: hardlink, else relative symlink, else RuntimeError.
\* The outcomes: the file system after it, whether it raised, the faults used.
ensure_compat_link(f, old_path, new_path, budget) ==
    IF PathExists(f, old_path)
    THEN { [fs |-> f, raised |-> FALSE, faults |-> 0] }
    ELSE UNION { IF l.ok
                 THEN { [fs |-> l.fs, raised |-> FALSE, faults |-> l.faults] }
                 ELSE { [fs |-> s.fs, raised |-> ~s.ok, faults |-> l.faults + s.faults] :
                        s \in OsSymlink(f, new_path, old_path, budget - l.faults > 0) }
               : l \in OsLink(f, new_path, old_path, budget > 0) }

\* ensure_compat_copy
ensure_compat_copy(f, old_path, new_path, budget) ==
    IF PathExists(f, old_path)
    THEN { [fs |-> f, raised |-> FALSE, faults |-> 0] }
    ELSE { [fs |-> c.fs, raised |-> ~c.ok, faults |-> c.faults] :
           c \in OsCopy(f, new_path, old_path, budget > 0) }

\* unique_path: p if it is free, else the first free <stem>__<i><suffix>, i >= 2
WithDisambiguator(p, i) ==
    Join(p.dir, Stem(p.name) \o <<"_","_">> \o IntToStr(i) \o Suffix(p.name))
unique_path(f, p) ==
    IF ~PathExists(f, p) THEN p
    ELSE LET i == CHOOSE k \in 2..(Cardinality(DOMAIN f) + 2) :
                      /\ ~PathExists(f, WithDisambiguator(p, k))
                      /\ \A j \in 2..(k - 1) : PathExists(f, WithDisambiguator(p, j))
         IN  WithDisambiguator(p, i)

\* Folder.iterdir(): the entries of a piece folder
Entries(f, folder) == { p \in DOMAIN f : p.dir = folder }

\* find_by_stem: the first file of the iteration whose stem matches; the
\* iteration order is the file system's, so any match can be the first
find_by_stem(f, folder, stem) ==
    { p \in Entries(f, folder) : IsFile(f, p) /\ Lower(Stem(p.name)) = Lower(stem) }

\* ------------------------------------------------------------------------
\* Names the planner knows
\* ------------------------------------------------------------------------
AudioStem == <<"a","u","d","i","o">>
CoverStem == <<"c","o","v","e","r">>
ExtMp4 == <<".","m","p","4">>
ExtM4a == <<".","m","4","a">>
ExtWav == <<".","w","a","v">>
ExtAac == <<".","a","a","c">>
ExtJpg == <<".","j","p","g">>
ExtJpeg == <<".","j","p","e","g">>
ExtPng == <<".","p","n","g">>
CoverInfix == <<".","c","o","v","e","r">>
Separator == <<" ","-"," ">>

\* The candidate lists of build_rename_ops, in the order they are tried
AudioCandidates == << AudioStem \o ExtMp4, AudioStem \o ExtM4a, AudioStem \o ExtWav, AudioStem \o ExtAac >>
CoverCandidates == << CoverStem \o ExtJpg, CoverStem \o ExtJpeg, CoverStem \o ExtPng >>

NoPath == [dir |-> "", name |-> <<>>]

\* for cand in [...]: if cand.exists(): src = cand; break
\* if src is None: src = find_by_stem(folder, stem)
LocateSource(f, folder, cands, stem) ==
    IF \E k \in 1..Len(cands) : PathExists(f, Join(folder, cands[k]))
    THEN { Join(folder, cands[CHOOSE k \in 1..Len(cands) :
                 /\ PathExists(f, Join(folder, cands[k]))
                 /\ \A j \in 1..(k - 1) : ~PathExists(f, Join(folder, cands[j]))]) }
    ELSE IF find_by_stem(f, folder, stem) = {} THEN { NoPath }
    ELSE find_by_stem(f, folder, stem)

RenameOp(kind, sid, title, src, dst, keep_mode) ==
    [kind |-> kind, short_id |-> sid, title |-> title, src |-> src, dst |-> dst,
     keep_mode |-> keep_mode]

\* if src.name != dst.name and not dst.exists(): ops.append(RenameOp(..., unique_path(dst), ...))
PlanAsset(f, kind, sid, title, src, dst, keep_mode) ==
    IF src.name /= dst.name /\ ~PathExists(f, dst)
    THEN << RenameOp(kind, sid, title, src, unique_path(f, dst), keep_mode) >>
    ELSE << >>

\* The body of the loop of build_rename_ops for one piece of an existing
\* folder, for one choice of the audio and the cover source
PlanPiece(f, piece, base, audio_src, cover_src, keep_mode) ==
    LET sid == piece.short_id
        title == IF piece.title = <<>> THEN Untitled ELSE piece.title
        attach == piece.attachment
        attach_src == Join(sid, attach)
        audio == IF audio_src /= NoPath
                 THEN [ops |-> PlanAsset(f, "audio", sid, title, audio_src,
                                         Join(sid, base \o Suffix(audio_src.name)), keep_mode),
                       warnings |-> << >>]
                 ELSE [ops |-> << >>, warnings |-> << [sid |-> sid, what |-> "audio file not found"] >>]
        cover == IF cover_src /= NoPath
                 THEN [ops |-> PlanAsset(f, "cover", sid, title, cover_src,
                                         Join(sid, base \o CoverInfix \o Suffix(cover_src.name)), keep_mode),
                       warnings |-> << >>]
                 ELSE [ops |-> << >>, warnings |-> << [sid |-> sid, what |-> "cover file not found"] >>]
        att ==   IF Strip(attach) = <<>> THEN [ops |-> << >>, warnings |-> << >>]
                 ELSE IF PathExists(f, attach_src)
                 THEN [ops |-> PlanAsset(f, "attachment", sid, title, attach_src,
                                         Join(sid, base \o Suffix(attach_src.name)), keep_mode),
                       warnings |-> << >>]
                 ELSE [ops |-> << >>, warnings |-> << [sid |-> sid, what |-> "attachment missing"] >>]
    IN  [ops |-> audio.ops \o cover.ops \o att.ops,
         warnings |-> audio.warnings \o cover.warnings \o att.warnings]

\* A planner that takes every folder to exist
FolderAlwaysExists(folders, sid) == TRUE

\* folder = pieces_dir / sid; folder.exists()
FolderExists(folders, sid) == sid \in folders

\* build_rename_ops: the (ops, warnings) it can return.  dirs are the existing
\* piece folders.  There is one result for every order in which the folders
\* can be iterated by find_by_stem.
RECURSIVE build_rename_ops(_, _, _, _, _, _)
build_rename_ops(f, dirs, pieces, username, preserve_blanks, keep_mode) ==
    IF pieces = << >> THEN { [ops |-> << >>, warnings |-> << >>] }
    ELSE
    LET username_clean == safe_filename_base(username, DefaultMaxLen, preserve_blanks)
        n == Len(pieces)
        piece == pieces[n]
        sid == piece.short_id
        title == IF piece.title = <<>> THEN Untitled ELSE piece.title
        base == safe_filename_base(username_clean \o Separator \o title, DefaultMaxLen, preserve_blanks)
        last ==
            IF sid = "" THEN { [ops |-> << >>, warnings |-> << [sid |-> sid, what |-> "no short_id"] >>] }
            ELSE IF ~FolderExists(dirs, sid)
            THEN { [ops |-> << >>, warnings |-> << [sid |-> sid, what |-> "folder missing"] >>] }
            ELSE { PlanPiece(f, piece, base, a, c, keep_mode) :
                     a \in LocateSource(f, sid, AudioCandidates, AudioStem),
                     c \in LocateSource(f, sid, CoverCandidates, CoverStem) }
    IN  { [ops |-> r.ops \o l.ops, warnings |-> r.warnings \o l.warnings] :
            r \in build_rename_ops(f, dirs, SubSeq(pieces, 1, n - 1), username, preserve_blanks, keep_mode),
            l \in last }

\* ------------------------------------------------------------------------
\* Journal records
\* ------------------------------------------------------------------------
\* RenameOp.to_json of allihoopa_tool.py: the mode is written as "keep_link"
to_json(op) ==
    [kind |-> op.kind, short_id |-> op.short_id, title |-> op.title,
     src |-> op.src, dst |-> op.dst, keep_link |-> op.keep_mode]

\* RenameOp of rename_allihoopa.py: keep_compat instead of keep_mode
LegacyRenameOp(op, keep_compat) ==
    [kind |-> op.kind, short_id |-> op.short_id, title |-> op.title,
     src |-> op.src, dst |-> op.dst, keep_compat |-> keep_compat]

\* RenameOp.to_json of rename_allihoopa.py
legacy_to_json(op) ==
    [kind |-> op.kind, short_id |-> op.short_id, title |-> op.title,
     src |-> op.src, dst |-> op.dst, keep_compat |-> op.keep_compat]

\* f.write(json.dumps(op.to_json()) + "\n"): the line of an op
JournalLine(script, op) == IF script = "tool" THEN to_json(op) ELSE legacy_to_json(op)

\* A journal that grows at its head
PrependLine(lines, line) == << line >> \o lines

\* log_path.open("a") ... f.flush(): the line goes to the end of the file
AppendLine(lines, line) == Append(lines, line)

\* getattr: whether an op has the attribute
HasAttr(op, name) == name \in DOMAIN op

\* Lines of a journal that no RenameOp.to_json wrote: text that json.loads
\* rejects, and JSON that is no record of a rename
Unparseable == [bad |-> "text"]
NotARecord == [bad |-> "json"]

\* e["src"], e["dst"] can be read
IsRecord(e) == HasAttr(e, "src") /\ HasAttr(e, "dst")

\* the lines of the journal that json.loads accepts, as positions in the file
ParseEntries(lines) ==
    SelectSeq([k \in 1..Len(lines) |-> k], LAMBDA k : lines[k] /= Unparseable)

\* The entries in the order of the file
KeepOrder(es) == es

\* entries.reverse()
ReverseEntries(es) == [k \in 1..Len(es) |-> es[Len(es) + 1 - k]]

\* ------------------------------------------------------------------------
\* Inputs
\* ------------------------------------------------------------------------
Username == <<"u">>
Title == <<"T">>
AttName == <<"a","t","t">> \o ExtMp4
Scripts == {"tool", "legacy"}
KeepModes == {"none", "link", "copy"}
PreserveChoices == {FALSE}

\* The pieces a manifest can hold
PieceChoices ==
    { [short_id |-> "s1", title |-> Title, attachment |-> a] :
        a \in { << >>, AttName, CoverStem \o ExtJpg } }
    \cup { [short_id |-> "s2", title |-> Title, attachment |-> << >>] }

Manifests == UNION { [1..n -> PieceChoices] : n \in 1..MaxPieces }

PlainBase == safe_filename_base(
    safe_filename_base(Username, DefaultMaxLen, FALSE) \o Separator \o Title, DefaultMaxLen, FALSE)

\* The piece folders at the start: s1 with audio, cover and attachment, s2
\* with audio only; s1 may already hold a file with the planned audio name
BaseFiles ==
    << Join("s1", AudioStem \o ExtMp4), Join("s1", CoverStem \o ExtJpg),
       Join("s1", AttName), Join("s2", AudioStem \o ExtMp4),
       Join("s1", PlainBase \o ExtMp4) >>

InitialFs ==
    { [p \in { BaseFiles[k] : k \in 1..n } |->
          LET k == CHOOSE j \in 1..n : BaseFiles[j] = p IN File(k, k)] : n \in {4, 5} }

\* ------------------------------------------------------------------------
\* State
\* ------------------------------------------------------------------------
VARIABLES
    fs,         \* the entries of the piece folders
    dirs,       \* the existing piece folders
    logDir,     \* the parent directory of the journal exists
    logFile,    \* the journal file exists
    journal,    \* the lines of the journal file
    manifest,   \* the pieces of the manifest
    pc,         \* where the running invocation stands ("idle": none runs)
    run,        \* the running (or last) invocation; jstart: the journal's length at its start
    trip,       \* a rename by the tool followed by its undo: the files before it
    plan,       \* the ops of the running (or last) rename
    warnings,   \* the warnings of its planner
    i,          \* position in plan (rename) or in entries (undo)
    buf,        \* lines written to the journal and not yet flushed
    done,       \* the renames the running (or last) rename has performed
    entries,    \* undo: the journal entries in the order they are processed
    acted,      \* undo: the entry of every system call made, in order
    auth,       \* undo: the entry in hand and the content its dst had
    nruns,      \* the invocations started
    faults,     \* the system calls that have failed
    nexternal,  \* the changes made to the folders by somebody else
    call,       \* the command line of the running (or last) main, or a function call
    result      \* what it returned: the exit code of main, or the function's value

vars == << fs, dirs, logDir, logFile, journal, manifest, pc, run, trip, plan,
           warnings, i, buf, done, entries, acted, auth, nruns, faults, nexternal,
           call, result >>

Disk == [fs |-> fs, logDir |-> logDir, logFile |-> logFile, journal |-> journal]

NoRun == [kind |-> "none", script |-> "none", dry |-> FALSE, keep |-> "none",
          outcome |-> "none", clean |-> TRUE, jstart |-> 0]
NoTrip == [stage |-> 0, fs0 |-> << >>]
NoAuth == [idx |-> 0, src |-> NoPath, dst |-> NoPath, data |-> 0]
NoCall == [fn |-> "none"]
NoResult == [none |-> TRUE]

Init ==
    /\ fs \in InitialFs
    /\ dirs = {"s1", "s2"}
    /\ logDir \in BOOLEAN
    /\ logFile = FALSE
    /\ journal = << >>
    /\ manifest \in Manifests
    /\ pc = "idle"
    /\ run = NoRun
    /\ trip = NoTrip
    /\ plan = << >>
    /\ warnings = << >>
    /\ i = 1
    /\ buf = << >>
    /\ done = << >>
    /\ entries = << >>
    /\ acted = << >>
    /\ auth = NoAuth
    /\ nruns = 0
    /\ faults = 0
    /\ nexternal = 0
    /\ call = NoCall
    /\ result = NoResult

Budget == MaxFaults - faults

\* ------------------------------------------------------------------------
\* rename: build_rename_ops, then apply_rename_ops (tool) or apply_ops (legacy)
\* ------------------------------------------------------------------------
\* A journal opened for writing from its start
OpenTruncate(lines) == << >>

\* with log_path.open("a", encoding="utf-8") as f: what the file holds stays
OpenAppend(lines) == lines

\* log_path.parent.mkdir(parents=True, exist_ok=True)
MkdirLogParent(exists) == TRUE

\* A destination is never seen as taken
DstNeverTaken(f, op) == FALSE

\* if op.dst.exists(): SKIP
DstTaken(f, op) == PathExists(f, op.dst)

\* The start of apply_rename_ops / apply_ops on a fresh plan: the mkdir, the
\* return on an empty plan or a dry run, the opening of the journal
RenameBegin(script, keep, dry, pb) ==
    /\ pc = "idle"
    /\ nruns < MaxRuns
    /\ nruns' = nruns + 1
    /\ script = "legacy" => keep \in {"none", "link"}
    /\ \E r \in build_rename_ops(fs, dirs, manifest, Username, pb, keep) :
         LET ops == IF script = "tool" THEN r.ops
                    ELSE [k \in 1..Len(r.ops) |-> LegacyRenameOp(r.ops[k], keep = "link")]
             stop == ops = << >> \/ dry
         IN  /\ plan' = ops
             /\ warnings' = r.warnings
             /\ logDir' = MkdirLogParent(logDir)
             /\ logFile' = (logFile \/ ~stop)
             /\ journal' = IF stop THEN journal ELSE OpenAppend(journal)
             /\ pc' = IF stop THEN "idle" ELSE "apply"
             /\ run' = [kind |-> "rename", script |-> script, dry |-> dry, keep |-> keep,
                        outcome |-> IF stop THEN "returned" ELSE "running",
                        clean |-> TRUE, jstart |-> Len(journal)]
    /\ trip' = IF script = "tool" /\ ~dry THEN [stage |-> 1, fs0 |-> fs] ELSE NoTrip
    /\ i' = 1
    /\ buf' = << >>
    /\ done' = << >>
    /\ entries' = << >>
    /\ acted' = << >>
    /\ auth' = NoAuth
    /\ UNCHANGED << fs, dirs, manifest, faults, nexternal >>

\* apply_rename_ops / apply_ops called with the plan of the planner
RenameStart(script, keep, dry, pb) ==
    /\ RenameBegin(script, keep, dry, pb)
    /\ call' = NoCall
    /\ result' = NoResult

\* The end of the with block: the journal is closed, what is buffered is written
CloseJournal(lines, buffered) == lines \o buffered

\* for op in ops: if op.dst.exists(): print SKIP; continue
ApplySkip ==
    /\ pc = "apply"
    /\ i <= Len(plan)
    /\ DstTaken(fs, plan[i])
    /\ i' = i + 1
    /\ UNCHANGED << fs, dirs, logDir, logFile, journal, manifest, pc, run, trip, plan,
                    warnings, buf, done, entries, acted, auth, nruns, faults, nexternal, call, result >>

\* old_path.rename(new_path); an OSError leaves the function
ApplyRename ==
    /\ pc = "apply"
    /\ i <= Len(plan)
    /\ ~DstTaken(fs, plan[i])
    /\ \E r \in OsRename(fs, plan[i].src, plan[i].dst) :
         /\ fs' = r.fs
         /\ done' = IF r.ok THEN Append(done, [src |-> plan[i].src, dst |-> plan[i].dst]) ELSE done
         /\ pc' = IF r.ok THEN "keep" ELSE "idle"
         /\ run' = IF r.ok THEN run ELSE [run EXCEPT !.outcome = "exception"]
         /\ journal' = IF r.ok THEN journal ELSE CloseJournal(journal, buf)
    /\ buf' = IF pc' = "idle" THEN << >> ELSE buf
    /\ UNCHANGED << dirs, logDir, logFile, manifest, trip, plan, warnings, i,
                    entries, acted, auth, nruns, faults, nexternal, call, result >>

\* The compat artifact of an op: what the keep step can leave behind
KeepOutcomes(script, f, op, budget) ==
    IF script = "tool"
    THEN IF op.keep_mode = "link" THEN ensure_compat_link(f, op.src, op.dst, budget)
         ELSE IF op.keep_mode = "copy" THEN ensure_compat_copy(f, op.src, op.dst, budget)
         ELSE { [fs |-> f, raised |-> FALSE, faults |-> 0] }
    ELSE IF op.keep_compat THEN ensure_compat_link(f, op.src, op.dst, budget)
         ELSE { [fs |-> f, raised |-> FALSE, faults |-> 0] }

\* if op.keep_mode == "link": try ensure_compat_link ... elif "copy": ...
\* (apply_ops: if op.keep_compat: ...); a failure is a warning
ApplyKeep ==
    /\ pc = "keep"
    /\ \E o \in KeepOutcomes(run.script, fs, plan[i], Budget) :
         /\ fs' = o.fs
         /\ faults' = faults + o.faults
         /\ run' = [run EXCEPT !.clean = run.clean /\ o.faults = 0]
    /\ pc' = IF run.script = "tool" THEN "keep_link" ELSE "write"
    /\ UNCHANGED << dirs, logDir, logFile, journal, manifest, trip, plan, warnings, i,
                    buf, done, entries, acted, auth, nruns, nexternal, call, result >>

\* apply_rename_ops only: if op.keep_link: ...   RenameOp has no such
\* attribute, the AttributeError leaves the function
ApplyKeepLink ==
    /\ pc = "keep_link"
    /\ IF HasAttr(plan[i], "keep_link")
       THEN \E o \in ensure_compat_link(fs, plan[i].src, plan[i].dst, Budget) :
              /\ fs' = o.fs
              /\ faults' = faults + o.faults
              /\ pc' = "write"
              /\ UNCHANGED << run, journal, buf >>
       ELSE /\ pc' = "idle"
            /\ run' = [run EXCEPT !.outcome = "exception"]
            /\ journal' = CloseJournal(journal, buf)
            /\ buf' = << >>
            /\ UNCHANGED << fs, faults >>
    /\ UNCHANGED << dirs, logDir, logFile, manifest, trip, plan, warnings, i,
                    done, entries, acted, auth, nruns, nexternal, call, result >>

\* f.write(json.dumps(op.to_json(), ensure_ascii=False) + "\n")
ApplyWrite ==
    /\ pc = "write"
    /\ buf' = Append(buf, JournalLine(run.script, plan[i]))
    /\ pc' = "flush"
    /\ UNCHANGED << fs, dirs, logDir, logFile, journal, manifest, run, trip, plan, warnings,
                    i, done, entries, acted, auth, nruns, faults, nexternal, call, result >>

\* f.flush(), and on to the next op
ApplyFlush ==
    /\ pc = "flush"
    /\ journal' = AppendLine(journal, buf[1])
    /\ buf' = << >>
    /\ i' = i + 1
    /\ pc' = "apply"
    /\ UNCHANGED << fs, dirs, logDir, logFile, manifest, run, trip, plan, warnings,
                    done, entries, acted, auth, nruns, faults, nexternal, call, result >>

\* The loop is over: the journal is closed and the function returns
ApplyEnd ==
    /\ pc = "apply"
    /\ i > Len(plan)
    /\ pc' = "idle"
    /\ run' = [run EXCEPT !.outcome = "returned"]
    /\ journal' = CloseJournal(journal, buf)
    /\ buf' = << >>
    /\ UNCHANGED << fs, dirs, logDir, logFile, manifest, trip, plan, warnings, i,
                    done, entries, acted, auth, nruns, faults, nexternal, call >>
    /\ result' = IF call.fn = "main" THEN [exit |-> 0] ELSE result

\* A rename is killed between two steps: what is buffered is lost
Kill ==
    /\ pc \in {"apply", "keep", "keep_link", "write", "flush"}
    /\ pc' = "idle"
    /\ run' = [run EXCEPT !.outcome = "killed"]
    /\ buf' = << >>
    /\ trip' = NoTrip
    /\ UNCHANGED << fs, dirs, logDir, logFile, journal, manifest, plan, warnings, i,
                    done, entries, acted, auth, nruns, faults, nexternal, call, result >>

\* ------------------------------------------------------------------------
\* undo: undo_rename_from_log (tool) or undo_from_log (legacy)
\* ------------------------------------------------------------------------
\* Reading the journal: return if it is missing or holds no entry, else
\* process the entries in reverse
UndoBegin(script, dry) ==
    /\ pc = "idle"
    /\ nruns < MaxRuns
    /\ nruns' = nruns + 1
    /\ LET es == ReverseEntries(ParseEntries(journal))
           stop == ~logFile \/ es = << >>
       IN  /\ entries' = IF stop THEN << >> ELSE es
           /\ pc' = IF stop THEN "idle" ELSE IF script = "tool" THEN "undo" ELSE "lundo"
           /\ run' = [kind |-> "undo", script |-> script, dry |-> dry, keep |-> "none",
                      outcome |-> IF stop THEN "returned" ELSE "running",
                      clean |-> TRUE, jstart |-> Len(journal)]
    /\ trip' = IF /\ trip.stage = 1 /\ run.outcome \in {"returned", "exception"}
                  /\ script = "tool" /\ ~dry
               THEN [trip EXCEPT !.stage = 2] ELSE NoTrip
    /\ i' = 1
    /\ buf' = << >>
    /\ acted' = << >>
    /\ auth' = NoAuth
    /\ UNCHANGED << fs, dirs, logDir, logFile, journal, manifest, plan, warnings,
                    done, faults, nexternal >>

\* undo_rename_from_log / undo_from_log called on the journal
UndoStart(script, dry) ==
    /\ UndoBegin(script, dry)
    /\ call' = NoCall
    /\ result' = NoResult

Entry == journal[entries[i]]

\* No record is ever seen as one whose dst is missing
DstNeverMissing(f, e) == FALSE

\* if not dst.exists():
DstMissing(f, e) == ~PathExists(f, e.dst)

\* if not dst.exists(): WARN dst missing, skipping
UndoSkip ==
    /\ pc = "undo"
    /\ i <= Len(entries)
    /\ IsRecord(Entry)
    /\ DstMissing(fs, Entry)
    /\ i' = i + 1
    /\ UNCHANGED << fs, dirs, logDir, logFile, journal, manifest, pc, run, trip, plan,
                    warnings, buf, done, entries, acted, auth, nruns, faults, nexternal, call, result >>

\* Delete compat file (if present): nothing for a directory or in a dry run,
\* else src.unlink(), once more after os.chmod on a PermissionError; a failure
\* is a warning
CleanupOutcomes(f, src, dry, budget) ==
    IF (PathExists(f, src) \/ IsSymlink(f, src)) /\ ~IsDir(f, src) /\ ~dry
    THEN { [fs |-> u.fs, faults |-> u.faults, acted |-> TRUE] : u \in OsUnlink(f, src, budget > 0) }
    ELSE { [fs |-> f, faults |-> 0, acted |-> FALSE] }

UndoDelete ==
    /\ pc = "undo"
    /\ i <= Len(entries)
    /\ IsRecord(Entry)
    /\ ~DstMissing(fs, Entry)
    /\ auth' = [idx |-> entries[i], src |-> Entry.src, dst |-> Entry.dst,
                data |-> Stat(fs, Entry.dst).data]
    /\ \E o \in CleanupOutcomes(fs, Entry.src, run.dry, Budget) :
         /\ fs' = o.fs
         /\ faults' = faults + o.faults
         /\ run' = [run EXCEPT !.clean = run.clean /\ o.faults = 0]
         /\ acted' = IF o.acted THEN Append(acted, entries[i]) ELSE acted
    /\ pc' = "undo_move"
    /\ UNCHANGED << dirs, logDir, logFile, journal, manifest, trip, plan, warnings, i,
                    buf, done, entries, nruns, nexternal, call, result >>

\* try: dst.rename(src) except: WARN could not rename
MoveBackOutcomes(f, src, dst, dry) ==
    IF dry THEN { [fs |-> f, acted |-> FALSE] }
    ELSE { [fs |-> r.fs, acted |-> TRUE] : r \in OsRename(f, dst, src) }

UndoMove ==
    /\ pc = "undo_move"
    /\ \E o \in MoveBackOutcomes(fs, Entry.src, Entry.dst, run.dry) :
         /\ fs' = o.fs
         /\ acted' = IF o.acted THEN Append(acted, entries[i]) ELSE acted
    /\ i' = i + 1
    /\ pc' = "undo"
    /\ UNCHANGED << dirs, logDir, logFile, journal, manifest, run, trip, plan, warnings,
                    buf, done, entries, auth, nruns, faults, nexternal, call, result >>

\* One entry of undo_from_log: a keep_compat entry has its dst deleted, any
\* other entry has dst renamed to src unless src exists; nothing is caught
undo_from_log_entry(f, e, dry, budget) ==
    LET keep_compat == IF "keep_compat" \in DOMAIN e THEN e.keep_compat ELSE FALSE
        nothing == { [fs |-> f, raised |-> FALSE, faults |-> 0, acted |-> FALSE] }
    IN  IF keep_compat
        THEN IF PathExists(f, e.dst) /\ ~dry
             THEN { [fs |-> u.fs, raised |-> ~u.ok, faults |-> u.faults, acted |-> TRUE] :
                    u \in OsUnlink(f, e.dst, budget > 0) }
             ELSE nothing
        ELSE IF PathExists(f, e.dst) /\ ~dry /\ ~PathExists(f, e.src)
             THEN { [fs |-> r.fs, raised |-> ~r.ok, faults |-> 0, acted |-> TRUE] :
                    r \in OsRename(f, e.dst, e.src) }
             ELSE nothing

LegacyUndoEntry ==
    /\ pc = "lundo"
    /\ i <= Len(entries)
    /\ IsRecord(Entry)
    /\ auth' = IF PathExists(fs, Entry.dst)
               THEN [idx |-> entries[i], src |-> Entry.src, dst |-> Entry.dst,
                     data |-> Stat(fs, Entry.dst).data]
               ELSE NoAuth
    /\ \E o \in undo_from_log_entry(fs, Entry, run.dry, Budget) :
         /\ fs' = o.fs
         /\ faults' = faults + o.faults
         /\ acted' = IF o.acted THEN Append(acted, entries[i]) ELSE acted
         /\ pc' = IF o.raised THEN "idle" ELSE "lundo"
         /\ i' = IF o.raised THEN i ELSE i + 1
         /\ run' = [run EXCEPT !.outcome = IF o.raised THEN "exception" ELSE run.outcome,
                               !.clean = run.clean /\ o.faults = 0]
    /\ UNCHANGED << dirs, logDir, logFile, journal, manifest, trip, plan, warnings,
                    buf, done, entries, nruns, nexternal, call, result >>

\* src = Path(e["src"]); dst = Path(e["dst"]) of an entry that is no record:
\* the KeyError or TypeError leaves the function
UndoBadEntry ==
    /\ pc \in {"undo", "lundo"}
    /\ i <= Len(entries)
    /\ ~IsRecord(Entry)
    /\ pc' = "idle"
    /\ run' = [run EXCEPT !.outcome = "exception"]
    /\ result' = IF call.fn = "main" THEN [exit |-> 1] ELSE result
    /\ UNCHANGED << fs, dirs, logDir, logFile, journal, manifest, trip, plan, warnings, i,
                    buf, done, entries, acted, auth, nruns, faults, nexternal, call >>

\* All entries are processed: the function returns
UndoEnd ==
    /\ pc \in {"undo", "lundo"}
    /\ i > Len(entries)
    /\ pc' = "idle"
    /\ run' = [run EXCEPT !.outcome = "returned"]
    /\ UNCHANGED << fs, dirs, logDir, logFile, journal, manifest, trip, plan, warnings, i,
                    buf, done, entries, acted, auth, nruns, faults, nexternal, call >>
    /\ result' = IF call.fn = "main" THEN [exit |-> 0] ELSE result

\* ------------------------------------------------------------------------
\* The environment: between two invocations somebody puts a file, a
\* directory or a link to the folder at the path a journal entry was renamed
\* from, or removes the file it was renamed to
\* ------------------------------------------------------------------------
ExternalKinds == {"file", "dir", "dirlink", "gone"}

ExternalPath(e, kind) == IF kind = "gone" THEN e.dst ELSE e.src

ExternalChange(f, e, kind) ==
    IF kind = "gone" THEN Remove(f, e.dst)
    ELSE IF kind = "file" THEN Put(f, e.src, File(FreshIno(f), 0))
    ELSE IF kind = "dir" THEN Put(f, e.src, Dir)
    ELSE Put(f, e.src, Symlink(Dot))

External(k, kind) ==
    /\ pc = "idle"
    /\ nexternal < MaxExternal
    /\ nruns < MaxRuns
    /\ (kind = "gone") = (ExternalPath(journal[k], kind) \in DOMAIN fs)
    /\ fs' = ExternalChange(fs, journal[k], kind)
    /\ nexternal' = nexternal + 1
    /\ run' = NoRun
    /\ trip' = NoTrip
    /\ UNCHANGED << dirs, logDir, logFile, journal, manifest, pc, plan, warnings,
                    i, buf, done, entries, acted, auth, nruns, faults >>
    /\ call' = NoCall
    /\ result' = NoResult

\* ------------------------------------------------------------------------
\* tag: find_audio_file, find_cover_file, write_meta_file, tag_mp4_file, cmd_tag
\* ------------------------------------------------------------------------
ExtFlac == <<".","f","l","a","c">>
ExtMp3 == <<".","m","p","3">>
ExtOgg == <<".","o","g","g">>
ExtMetaJson == <<".","m","e","t","a",".","j","s","o","n">>
AUDIO_EXTS == << ExtMp4, ExtM4a, ExtAac >>
COVER_EXTS == << ExtJpg, ExtJpeg, ExtPng >>
FallbackAudioExts == << ExtMp4, ExtM4a, ExtAac, ExtWav, ExtFlac, ExtMp3, ExtOgg >>

\* for ext in exts: p = folder / f"{stem}{ext}"; if p.exists(): return p
FirstExisting(f, folder, stem, exts) ==
    IF \E k \in 1..Len(exts) : PathExists(f, Join(folder, stem \o exts[k]))
    THEN { Join(folder, stem \o exts[CHOOSE k \in 1..Len(exts) :
                 /\ PathExists(f, Join(folder, stem \o exts[k]))
                 /\ \A j \in 1..(k - 1) : ~PathExists(f, Join(folder, stem \o exts[j]))]) }
    ELSE {}

\* The rest of find_audio_file / find_cover_file: the renamed form, the
\* old name, the stem, the only file with one of the extensions
FindAsset(f, folder, renamed, old_stem, old_exts, exts) ==
    LET first == FirstExisting(f, folder, renamed, exts)
        old == FirstExisting(f, folder, old_stem, old_exts)
        by_stem == find_by_stem(f, folder, old_stem)
        candidates == { p \in Entries(f, folder) :
                          IsFile(f, p) /\ Lower(Suffix(p.name)) \in Range(exts) }
    IN  IF first /= {} THEN first
        ELSE IF old /= {} THEN old
        ELSE IF by_stem /= {} THEN by_stem
        ELSE IF Cardinality(candidates) = 1 THEN candidates
        ELSE { NoPath }

find_audio_file(f, folder, base) ==
    FindAsset(f, folder, base, AudioStem, FallbackAudioExts, AUDIO_EXTS)

find_cover_file(f, folder, base) ==
    FindAsset(f, folder, base \o CoverInfix, CoverStem, COVER_EXTS, COVER_EXTS)

\* What is written into the file of an inode reaches every name of it
WriteInode(f, ino, data) ==
    [p \in DOMAIN f |-> IF f[p].t = "file" /\ f[p].ino = ino
                        THEN [f[p] EXCEPT !.data = data] ELSE f[p]]

\* Path.write_text through the links of p: the file is created or truncated
WriteText(f, p, data) ==
    IF p \in DOMAIN f /\ f[p].t = "symlink"
    THEN LET q == Join(p.dir, f[p].to)
         IN  IF q \in DOMAIN f /\ f[q].t = "file" THEN WriteInode(f, f[q].ino, data)
             ELSE IF q \in DOMAIN f THEN f
             ELSE Put(f, q, File(FreshIno(f), data))
    ELSE IF p \in DOMAIN f /\ f[p].t = "file" THEN WriteInode(f, f[p].ino, data)
    ELSE IF p \in DOMAIN f THEN f
    ELSE Put(f, p, File(FreshIno(f), data))

\* The content of a sidecar and of a tagged audio file
MetaContent(piece) == 50
TaggedContent(data) == IF data >= 100 THEN data ELSE data + 100

\* write_meta_file
write_meta_file(f, meta_path, piece, overwrite) ==
    IF PathExists(f, meta_path) /\ ~overwrite THEN f
    ELSE WriteText(f, meta_path, MetaContent(piece))

\* tag_mp4_file: without mutagen it raises; MP4(...) raises on what is no
\* MP4 file; else the tags are saved into the file
tag_mp4_file(f, audio_path, mutagen) ==
    IF mutagen /\ IsFile(f, audio_path)
    THEN { WriteInode(f, Stat(f, audio_path).ino, TaggedContent(Stat(f, audio_path).data)), f }
    ELSE { f }

\* The body of the loop of cmd_tag for one piece
TagPiece(f, folders, piece, username_clean, preserve_blanks, dry_run, overwrite_meta, mutagen) ==
    LET sid == piece.short_id
        title == IF piece.title = <<>> THEN Untitled ELSE piece.title
        base == safe_filename_base(username_clean \o Separator \o title, DefaultMaxLen, preserve_blanks)
    IN  IF sid = "" \/ sid \notin folders THEN { f }
        ELSE UNION { IF a = NoPath \/ Lower(Suffix(a.name)) \notin Range(AUDIO_EXTS) \/ dry_run
                     THEN { f }
                     ELSE tag_mp4_file(
                              write_meta_file(f, Join(sid, base \o ExtMetaJson), piece, overwrite_meta),
                              a, mutagen)
                     : a \in find_audio_file(f, sid, base) }

\* cmd_tag: the folders it can leave and its return value
RECURSIVE TagPieces(_, _, _, _, _, _, _, _)
TagPieces(f, folders, pieces, username_clean, preserve_blanks, dry_run, overwrite_meta, mutagen) ==
    IF pieces = << >> THEN { f }
    ELSE UNION { TagPieces(g, folders, Tail(pieces), username_clean, preserve_blanks,
                           dry_run, overwrite_meta, mutagen)
                 : g \in TagPiece(f, folders, Head(pieces), username_clean, preserve_blanks,
                                  dry_run, overwrite_meta, mutagen) }

cmd_tag(f, folders, has_pieces, pieces, username, preserve_blanks, dry_run, overwrite_meta, mutagen) ==
    IF ~has_pieces THEN { [fs |-> f, exit |-> 2] }
    ELSE { [fs |-> g, exit |-> 0] :
             g \in TagPieces(f, folders, pieces,
                             safe_filename_base(username, DefaultMaxLen, preserve_blanks),
                             preserve_blanks, dry_run, overwrite_meta, mutagen) }

\* ------------------------------------------------------------------------
\* main of allihoopa_tool.py
\* ------------------------------------------------------------------------
\* What --meta points to: the manifest, no file, a file that is no JSON, a
\* JSON value that is no object, an object without a `pieces` list
MetaKinds == {"ok", "missing", "unparseable", "not_object", "no_pieces"}

\* The command lines of the rename subcommand: --keep-link and --keep-copy
\* exclude each other.  pieces_dir: the pieces directory exists; at most one
\* of the manifest and the pieces directory is bad
RenameArgs ==
    { a \in [cmd : {"rename"}, apply : BOOLEAN, dry_run : BOOLEAN, undo : BOOLEAN,
             keep_link : BOOLEAN, keep_copy : BOOLEAN,
             meta : MetaKinds, pieces_dir : BOOLEAN] :
        /\ ~(a.keep_link /\ a.keep_copy)
        /\ a.meta = "ok" \/ a.pieces_dir }

\* The command lines of the tag subcommand; mutagen: the package is installed
TagArgs ==
    { a \in [cmd : {"tag"}, apply : BOOLEAN, dry_run : BOOLEAN, no_overwrite_meta : BOOLEAN,
             meta : MetaKinds, pieces_dir : BOOLEAN, mutagen : BOOLEAN] :
        a.meta = "ok" \/ a.pieces_dir }

\* main ends at once: return 2, or an exception nobody catches (exit status 1)
MainReturn(code, f) ==
    /\ nruns' = nruns + 1
    /\ result' = [exit |-> code]
    /\ fs' = f
    /\ run' = [NoRun EXCEPT !.kind = "main", !.script = "tool",
                            !.outcome = IF code = 1 THEN "exception" ELSE "returned",
                            !.jstart = Len(journal)]
    /\ trip' = NoTrip
    /\ plan' = << >>
    /\ warnings' = << >>
    /\ i' = 1
    /\ buf' = << >>
    /\ done' = << >>
    /\ entries' = << >>
    /\ acted' = << >>
    /\ auth' = NoAuth
    /\ UNCHANGED << dirs, logDir, logFile, journal, manifest, pc, faults, nexternal >>

\* The exit code once the function main has called is back
ReturnZero == IF pc' = "idle" THEN [exit |-> 0] ELSE NoResult

Main(a) ==
    /\ pc = "idle"
    /\ nruns < MaxRuns
    /\ call' = a @@ [fn |-> "main"]
    /\ IF a.meta = "missing" \/ ~a.pieces_dir THEN MainReturn(2, fs)
       ELSE IF a.meta \in {"unparseable", "not_object"} THEN MainReturn(1, fs)
       ELSE IF a.cmd = "rename"
       THEN LET dry_run == a.dry_run \/ (~a.apply /\ ~a.undo)
                keep_mode == IF a.keep_link THEN "link" ELSE IF a.keep_copy THEN "copy" ELSE "none"
            IN  IF a.undo
                THEN UndoBegin("tool", dry_run) /\ result' = ReturnZero
                ELSE IF a.meta = "no_pieces" THEN MainReturn(2, fs)
                ELSE IF HasAttr(a, "keep_mode")
                THEN RenameBegin("tool", a.keep_mode, dry_run, FALSE) /\ result' = ReturnZero
                ELSE MainReturn(1, fs)
       ELSE \E r \in cmd_tag(fs, dirs, a.meta = "ok", manifest, Username, FALSE,
                             a.dry_run \/ ~a.apply, ~a.no_overwrite_meta, a.mutagen) :
              MainReturn(r.exit, r.fs)

Next ==
    \/ \E script \in Scripts, keep \in KeepModes, dry \in BOOLEAN, pb \in PreserveChoices :
         RenameStart(script, keep, dry, pb)
    \/ ApplySkip
    \/ ApplyRename
    \/ ApplyKeep
    \/ ApplyKeepLink
    \/ ApplyWrite
    \/ ApplyFlush
    \/ ApplyEnd
    \/ Kill
    \/ \E script \in Scripts, dry \in BOOLEAN : UndoStart(script, dry)
    \/ UndoSkip
    \/ UndoDelete
    \/ UndoMove
    \/ LegacyUndoEntry
    \/ UndoEnd
    \/ \E k \in 1..Len(journal), kind \in ExternalKinds : External(k, kind)

Spec == Init /\ [][Next]_vars

\* The command line of the tool, on an archive that apply_ops of the older
\* script may have renamed and from which a renamed file may have gone
MainInit == Init /\ logDir

MainNext ==
    \/ \E a \in RenameArgs \cup TagArgs : Main(a)
    \/ \E keep \in {"none", "link"} : RenameStart("legacy", keep, FALSE, FALSE)
    \/ ApplySkip
    \/ ApplyRename
    \/ ApplyKeep
    \/ ApplyWrite
    \/ ApplyFlush
    \/ ApplyEnd
    \/ UndoSkip
    \/ UndoDelete
    \/ UndoMove
    \/ UndoEnd
    \/ \E k \in 1..Len(journal) : External(k, "gone")

MainSpec == MainInit /\ [][MainNext]_vars

\* ------------------------------------------------------------------------
\* Undo by the tool of a journal that apply_ops of the older script wrote and
\* into which somebody has put a line that is no record
\* ------------------------------------------------------------------------
BadLines == {Unparseable, NotARecord}

InsertLine(lines, k, line) == SubSeq(lines, 1, k) \o << line >> \o SubSeq(lines, k + 1, Len(lines))

CorruptJournal(k, line) ==
    /\ pc = "idle"
    /\ logFile
    /\ nruns < MaxRuns
    /\ \A j \in 1..Len(journal) : IsRecord(journal[j])
    /\ journal' = InsertLine(journal, k, line)
    /\ run' = NoRun
    /\ trip' = NoTrip
    /\ call' = NoCall
    /\ result' = NoResult
    /\ UNCHANGED << fs, dirs, logDir, logFile, manifest, pc, plan, warnings,
                    i, buf, done, entries, acted, auth, nruns, faults, nexternal >>

UndoNext ==
    \/ \E keep \in {"none", "link"} : RenameStart("legacy", keep, FALSE, FALSE)
    \/ ApplySkip
    \/ ApplyRename
    \/ ApplyKeep
    \/ ApplyWrite
    \/ ApplyFlush
    \/ ApplyEnd
    \/ \E k \in 0..Len(journal), line \in BadLines : CorruptJournal(k, line)
    \/ \E k \in 1..Len(journal) : IsRecord(journal[k]) /\ External(k, "gone")
    \/ \E dry \in BOOLEAN : UndoStart("tool", dry)
    \/ UndoSkip
    \/ UndoDelete
    \/ UndoMove
    \/ UndoBadEntry
    \/ UndoEnd

UndoSpec == MainInit /\ [][UndoNext]_vars

\* ------------------------------------------------------------------------
\* A rename of a folder whose audio file is audio.m4a, with attachments
\* att.mp4 and att.m4a and, maybe, a file that has the planned name with
\* another audio extension; find_audio_file and find_cover_file look at the
\* result
\* ------------------------------------------------------------------------
RelocateFiles ==
    << Join("s1", AudioStem \o ExtM4a), Join("s1", CoverStem \o ExtJpg),
       Join("s1", AttName), Join("s1", <<"a","t","t">> \o ExtM4a),
       Join("s1", PlainBase \o ExtMp4) >>

RelocateFs ==
    { [p \in { RelocateFiles[k] : k \in 1..n } |->
          LET k == CHOOSE j \in 1..n : RelocateFiles[j] = p IN File(k, k)] : n \in {4, 5} }

RelocateManifests ==
    { << [short_id |-> "s1", title |-> Title, attachment |-> a] >> :
        a \in { << >>, AttName, <<"a","t","t">> \o ExtM4a } }

RelocateInit ==
    /\ fs \in RelocateFs
    /\ dirs = {"s1"}
    /\ logDir = TRUE
    /\ logFile = FALSE
    /\ journal = << >>
    /\ manifest \in RelocateManifests
    /\ pc = "idle"
    /\ run = NoRun
    /\ trip = NoTrip
    /\ plan = << >>
    /\ warnings = << >>
    /\ i = 1
    /\ buf = << >>
    /\ done = << >>
    /\ entries = << >>
    /\ acted = << >>
    /\ auth = NoAuth
    /\ nruns = 0
    /\ faults = 0
    /\ nexternal = 0
    /\ call = NoCall
    /\ result = NoResult

RelocateNext ==
    \/ \E script \in Scripts, keep \in KeepModes : RenameStart(script, keep, FALSE, FALSE)
    \/ ApplySkip
    \/ ApplyRename
    \/ ApplyKeep
    \/ ApplyKeepLink
    \/ ApplyWrite
    \/ ApplyFlush
    \/ ApplyEnd

RelocateSpec == RelocateInit /\ [][RelocateNext]_vars

\* ------------------------------------------------------------------------
\* The functions on their own: safe_filename_base and build_rename_ops
\* ------------------------------------------------------------------------
\* The strings given to safe_filename_base, and the values of max_len
SanitizeChars == {"c", "o", "n", "_", "<", " ", "."}
MaxStrLen == 4
Strings == UNION { [1..n -> SanitizeChars] : n \in 0..MaxStrLen }
MaxLens == (1..(MaxStrLen - 1)) \cup {DefaultMaxLen}

SanitizeCalls ==
    [fn : {"safe_filename_base"}, s : Strings, max_len : MaxLens, preserve_blanks : BOOLEAN]

\* The pieces of the manifests given to build_rename_ops: with and without
\* short_id, title and attachment, of folders that exist or not
ExampleUser == <<"j","d","o","e">>
ExampleTitle == <<"M","y"," ","S","o","n","g">>
ExampleId == "abc123"

FnPieceChoices ==
    { [short_id |-> "", title |-> Title, attachment |-> << >>],
      [short_id |-> "s1", title |-> Title, attachment |-> << >>],
      [short_id |-> "s1", title |-> Title, attachment |-> AttName],
      [short_id |-> "s2", title |-> << >>, attachment |-> << >>],
      [short_id |-> "s3", title |-> Title, attachment |-> << >>],
      [short_id |-> ExampleId, title |-> ExampleTitle, attachment |-> << >>] }

FnManifests == UNION { [1..n -> FnPieceChoices] : n \in 0..(MaxPieces + 1) }

PlanCalls ==
    [fn : {"build_rename_ops"}, pieces : FnManifests, username : {Username, ExampleUser},
     preserve_blanks : BOOLEAN, keep_mode : KeepModes]

\* The pieces directory of a call of build_rename_ops: the example folder
\* with audio.mp4 and cover.jpg, s1 with audio, cover and attachment, and s2
\* either with two files of stem audio that are no candidates, or empty, or
\* missing; s3 never exists
FnFiles ==
    << Join(ExampleId, AudioStem \o ExtMp4), Join(ExampleId, CoverStem \o ExtJpg),
       Join("s1", AudioStem \o ExtMp4), Join("s1", CoverStem \o ExtJpg), Join("s1", AttName),
       Join("s2", AudioStem \o ExtFlac), Join("s2", AudioStem \o ExtOgg) >>

FnFs(n) ==
    [p \in { FnFiles[k] : k \in 1..n } |->
        LET k == CHOOSE j \in 1..n : FnFiles[j] = p IN File(k, k)]

FnDisks ==
    { d \in { [fs |-> FnFs(n), dirs |-> ds] :
                n \in {5, 7}, ds \in { {ExampleId, "s1", "s2"}, {ExampleId, "s1"} } } :
        \A p \in DOMAIN d.fs : p.dir \in d.dirs }

\* The folders given to find_audio_file: any of the renamed audio file, old
\* names of the fallback list, a file of stem audio in other letters, and
\* files with an audio extension and another stem
FindFiles ==
    { PlainBase \o ExtM4a, AudioStem \o ExtAac, AudioStem \o ExtWav, AudioStem \o ExtOgg,
      <<"A","u","d","i","o",".","x">>, <<"x">> \o ExtMp4, <<"y">> \o ExtM4a }

FindDisks ==
    { [fs |-> [p \in { Join("s1", n) : n \in names } |-> File(Len(p.name), Len(p.name))],
       dirs |-> {"s1"}] : names \in SUBSET FindFiles }

FindCalls == [fn : {"find_audio_file"}, folder : {"s1"}, base : {PlainBase}]

\* float(str): of the strings made of digits, ".", "-" and other characters,
\* the ones with an optional sign, at least one digit and at most one "."
\* are numbers; the others raise ValueError
Unsigned(s) == IF s /= << >> /\ Head(s) \in {"-", "+"} THEN Tail(s) ELSE s
IsFloat(s) ==
    LET u == Unsigned(Strip(s)) IN
    /\ \A k \in 1..Len(u) : IsIn(u[k], Digits) \/ u[k] = "."
    /\ \E k \in 1..Len(u) : IsIn(u[k], Digits)
    /\ Cardinality({ k \in 1..Len(u) : u[k] = "." }) <= 1

RECURSIVE DigitsToInt(_)
DigitsToInt(ds) ==
    IF ds = << >> THEN 0
    ELSE 10 * DigitsToInt(SubSeq(ds, 1, Len(ds) - 1)) + (IndexIn(ds[Len(ds)], Digits) - 1)

RECURSIVE Pow10(_)
Pow10(n) == IF n = 0 THEN 1 ELSE 10 * Pow10(n - 1)

\* The value of a number: num / den, den a power of ten
FloatOf(s) ==
    LET t == Strip(s)
        u == Unsigned(t)
        dot == IF \E k \in 1..Len(u) : u[k] = "." THEN CHOOSE k \in 1..Len(u) : u[k] = "." ELSE 0
        ds == SelectSeq(u, LAMBDA c : c /= ".")
        mag == DigitsToInt(ds)
    IN  [num |-> IF t /= << >> /\ Head(t) = "-" THEN 0 - mag ELSE mag,
         den |-> IF dot = 0 THEN 1 ELSE Pow10(Len(u) - dot)]

\* round(f) of a float f >= 0 that is a short decimal: to the nearest
\* integer, a tie to the even one
Round(f) ==
    LET q == f.num \div f.den
        r == f.num % f.den
    IN  IF 2 * r < f.den THEN q
        ELSE IF 2 * r > f.den THEN q + 1
        ELSE IF q % 2 = 0 THEN q ELSE q + 1

\* parse_tempo_to_tmpo: << >> is None
parse_tempo_to_tmpo(tempo_value) ==
    IF ~IsFloat(tempo_value) THEN << >>
    ELSE LET f == FloatOf(tempo_value) IN
         IF f.num <= 0 THEN << >> ELSE << Round(f) >>

\* The tempo strings given to parse_tempo_to_tmpo
TempoChars == {"0", "1", "4", "5", ".", "-", "a", " "}
TempoStrings == UNION { [1..n -> TempoChars] : n \in 0..MaxStrLen }
TempoCalls == [fn : {"parse_tempo_to_tmpo"}, tempo_value : TempoStrings]

\* A comparison of names that tells the cases of letters apart
NoFold(s) == s

\* str.casefold(), for the letters of the names used
casefold(s) == Lower(s)

\* The loop of build_comment over cols_raw: the names kept and the
\* normalised names seen
RECURSIVE CollectCols(_, _)
CollectCols(cols_raw, user_norm) ==
    IF cols_raw = << >> THEN [cols |-> << >>, seen |-> {}]
    ELSE LET n == Len(cols_raw)
             before == CollectCols(SubSeq(cols_raw, 1, n - 1), user_norm)
             c == cols_raw[n]
             c_clean == Strip(c)
             c_norm == casefold(c_clean)
         IN  IF c = << >> THEN before
             ELSE IF c_clean = << >> THEN before
             ELSE IF user_norm /= << >> /\ c_norm = user_norm THEN before
             ELSE IF c_norm \in before.seen THEN before
             ELSE [cols |-> Append(before.cols, c_clean), seen |-> before.seen \cup {c_norm}]

\* sep.join(parts)
RECURSIVE JoinWith(_, _)
JoinWith(sep, parts) ==
    IF parts = << >> THEN << >>
    ELSE IF Len(parts) = 1 THEN parts[1]
    ELSE parts[1] \o sep \o JoinWith(sep, Tail(parts))

CollaboratorsHeader == <<"C","o","l","l","a","b","o","r","a","t","o","r","s",":">>

\* build_comment(description, collaborators, username); None is << >>
build_comment(description, collaborators, username) ==
    LET desc == RStrip(description, Whitespace)
        user_norm == casefold(Strip(username))
        cols == CollectCols(collaborators, user_norm).cols
        tail == CollaboratorsHeader \o <<"\n">> \o JoinWith(<<"\n">>, cols)
    IN  IF cols = << >> THEN desc
        ELSE IF desc /= << >> THEN desc \o <<"\n", "\n">> \o tail
        ELSE tail

\* The collaborators, usernames and descriptions given to build_comment
MaxCols == 3
Alice == <<"A","l","i","c","e">>
Bob == <<"B","o","b">>
NameChoices == { Alice, Lower(Alice), Bob, <<" ">> \o Bob, << >>, <<" ">> }
CommentCalls ==
    [fn : {"build_comment"},
     description : { << >>, <<"d">>, <<"d", " ">> },
     collaborators : UNION { [1..n -> NameChoices] : n \in 0..MaxCols },
     username : { << >>, Alice, <<" ">> \o Lower(Alice) \o <<" ">> }]

\* A call of one of the functions, nothing else running
FnInit ==
    /\ call \in SanitizeCalls \cup PlanCalls \cup FindCalls \cup TempoCalls \cup CommentCalls
    /\ \E d \in (IF call.fn = "build_rename_ops" THEN FnDisks
                 ELSE IF call.fn = "find_audio_file" THEN FindDisks
                 ELSE { [fs |-> FnFs(0), dirs |-> {}] }) :
         /\ fs = d.fs
         /\ dirs = d.dirs
    /\ logDir = TRUE
    /\ logFile = FALSE
    /\ journal = << >>
    /\ manifest = IF call.fn = "build_rename_ops" THEN call.pieces ELSE << >>
    /\ pc = "idle"
    /\ run = NoRun
    /\ trip = NoTrip
    /\ plan = << >>
    /\ warnings = << >>
    /\ i = 1
    /\ buf = << >>
    /\ done = << >>
    /\ entries = << >>
    /\ acted = << >>
    /\ auth = NoAuth
    /\ nruns = 0
    /\ faults = 0
    /\ nexternal = 0
    /\ result = NoResult

\* safe_filename_base(s, max_len=..., preserve_blanks=...)
CallSafeFilenameBase ==
    /\ call.fn = "safe_filename_base"
    /\ result = NoResult
    /\ result' = [value |-> safe_filename_base(call.s, call.max_len, call.preserve_blanks)]
    /\ UNCHANGED << fs, dirs, logDir, logFile, journal, manifest, pc, run, trip, plan,
                    warnings, i, buf, done, entries, acted, auth, nruns, faults,
                    nexternal, call >>

\* safe_filename_base of what it has returned, with the same parameters
CallSafeFilenameBaseAgain ==
    /\ call.fn = "safe_filename_base"
    /\ DOMAIN result = {"value"}
    /\ result' = [value |-> result.value,
                  again |-> safe_filename_base(result.value, call.max_len, call.preserve_blanks)]
    /\ UNCHANGED << fs, dirs, logDir, logFile, journal, manifest, pc, run, trip, plan,
                    warnings, i, buf, done, entries, acted, auth, nruns, faults,
                    nexternal, call >>

\* ops, warnings = build_rename_ops(pieces, pieces_dir, username, preserve_blanks, keep_mode)
CallBuildRenameOps ==
    /\ call.fn = "build_rename_ops"
    /\ result = NoResult
    /\ \E r \in build_rename_ops(fs, dirs, call.pieces, call.username,
                                 call.preserve_blanks, call.keep_mode) :
         /\ result' = [value |-> r]
         /\ plan' = r.ops
         /\ warnings' = r.warnings
    /\ UNCHANGED << fs, dirs, logDir, logFile, journal, manifest, pc, run, trip,
                    i, buf, done, entries, acted, auth, nruns, faults, nexternal, call >>

\* find_audio_file(folder, base)
CallFindAudioFile ==
    /\ call.fn = "find_audio_file"
    /\ result = NoResult
    /\ \E p \in find_audio_file(fs, call.folder, call.base) : result' = [value |-> p]
    /\ UNCHANGED << fs, dirs, logDir, logFile, journal, manifest, pc, run, trip, plan,
                    warnings, i, buf, done, entries, acted, auth, nruns, faults,
                    nexternal, call >>

\* parse_tempo_to_tmpo(tempo_value)
CallParseTempo ==
    /\ call.fn = "parse_tempo_to_tmpo"
    /\ result = NoResult
    /\ result' = [value |-> parse_tempo_to_tmpo(call.tempo_value)]
    /\ UNCHANGED << fs, dirs, logDir, logFile, journal, manifest, pc, run, trip, plan,
                    warnings, i, buf, done, entries, acted, auth, nruns, faults,
                    nexternal, call >>

\* build_comment(description, collaborators, username)
CallBuildComment ==
    /\ call.fn = "build_comment"
    /\ result = NoResult
    /\ result' = [value |-> build_comment(call.description, call.collaborators, call.username)]
    /\ UNCHANGED << fs, dirs, logDir, logFile, journal, manifest, pc, run, trip, plan,
                    warnings, i, buf, done, entries, acted, auth, nruns, faults,
                    nexternal, call >>

FnNext ==
    \/ CallBuildComment
    \/ CallParseTempo
    \/ CallSafeFilenameBase
    \/ CallSafeFilenameBaseAgain
    \/ CallBuildRenameOps
    \/ CallFindAudioFile

FnSpec == FnInit /\ [][FnNext]_vars

\* ------------------------------------------------------------------------
\* Properties
\* ------------------------------------------------------------------------
\* The records the running (or last) rename has appended to the journal
Appended == Len(journal) - run.jstart

\* The k-th record this run appended is the record of the k-th rename it performed
RecordOfRename(k) ==
    /\ journal[run.jstart + k].src = done[k].src
    /\ journal[run.jstart + k].dst = done[k].dst

\* C1: round trip.  After a rename by the tool in apply mode and, directly
\* after it, an undo by the tool in apply mode that returned without a
\* deletion failure, nothing else having touched the folders, every file the
\* rename moved is back at its source path with the content it had, and no
\* planned destination holds a file.
RoundTripRestores ==
    (trip.stage = 2 /\ pc = "idle" /\ run.outcome = "returned" /\ run.clean) =>
        /\ \A k \in 1..Len(done) :
             /\ done[k].src \in DOMAIN fs
             /\ fs[done[k].src] = trip.fs0[done[k].src]
        /\ \A k \in 1..Len(plan) : plan[k].dst \notin DOMAIN fs

\* C2: whenever apply_rename_ops, in apply mode, is about to start an
\* operation or has ended (by return or by exception), every rename it has
\* performed has its record appended to the journal and flushed.
RenameFollowedByRecord ==
    ( /\ run.kind = "rename" /\ run.script = "tool" /\ ~run.dry
      /\ \/ pc = "apply"
         \/ pc = "idle" /\ run.outcome \in {"returned", "exception"} )
    => /\ Appended = Len(done)
       /\ \A k \in 1..Len(done) : RecordOfRename(k)

\* C3: wherever a rename run (of either script) stands or has stopped, by
\* return, exception or kill, the records it has appended to the journal are
\* the records of the first renames it performed, one each, in the order they
\* were performed: no record of a rename that did not happen or of a skipped
\* operation.
JournalRecordsArePerformedRenames ==
    run.kind = "rename" =>
        /\ Appended >= 0
        /\ Appended <= Len(done)
        /\ \A k \in 1..Appended : RecordOfRename(k)

\* C3, witness: a rename was killed after its second rename, the record of the
\* first one being in the journal
KilledAfterSecondRename ==
    /\ run.kind = "rename" /\ run.outcome = "killed" /\ pc = "idle"
    /\ Appended = 1
    /\ Len(done) = 2

\* C4: a dry run of apply_rename_ops (or apply_ops), whatever the plan and
\* whether or not the directory of the journal exists, leaves the whole disk
\* as it is: the folders, the journal and the directory of the journal.
DryRunChangesNothing ==
    [][ (pc = "idle" /\ nruns' = nruns + 1 /\ run'.kind = "rename" /\ run'.dry)
        => Disk' = Disk ]_vars

\* The folders after src has been renamed to the free path dst
Moved(f, src, dst) ==
    [p \in (DOMAIN f \ {src}) \cup {dst} |-> IF p = dst THEN f[src] ELSE f[p]]

\* C5: when a rename in apply mode reaches an op whose dst is an entry of the
\* folder, nothing on disk changes, no record is written and the run goes on
\* with the next op; when dst is free and src is there, src is moved to dst
\* and nothing else changes; when dst is free and src is gone, the rename
\* raises and nothing on disk changes.  No existing entry is ever replaced.
NeverReplacesExisting ==
    [][ (pc = "apply" /\ i <= Len(plan) /\ run'.outcome /= "killed") =>
          LET op == plan[i] IN
            IF op.dst \in DOMAIN fs
            THEN /\ fs' = fs /\ journal' = journal /\ buf' = buf /\ done' = done
                 /\ pc' = "apply" /\ i' = i + 1
            ELSE IF op.src \in DOMAIN fs
            THEN /\ fs' = Moved(fs, op.src, op.dst)
                 /\ done' = Append(done, [src |-> op.src, dst |-> op.dst])
            ELSE /\ fs' = fs /\ journal' = journal /\ run'.outcome = "exception" ]_vars

\* C5, witness: a rename in apply mode has skipped an op whose dst was taken
\* and has performed the rename of another
SkippedOneRenamedOne ==
    /\ run.kind = "rename" /\ ~run.dry /\ pc = "apply"
    /\ Len(done) >= 1
    /\ i - 1 > Len(done)
    /\ \E k \in 1..(i - 1) : plan[k].dst \in DOMAIN fs /\ plan[k].src \in DOMAIN fs

\* build_rename_ops of the tool has just returned plan: nothing has been
\* renamed since
FreshPlan ==
    /\ run.kind = "rename" /\ run.script = "tool"
    /\ \/ run.dry /\ pc = "idle"
       \/ pc = "apply" /\ i = 1

\* C6: the ops build_rename_ops returns have pairwise distinct dst paths, and
\* no dst is a path that exists in the folders at planning time.
PlannedDestinationsDistinctAndFree ==
    FreshPlan =>
        /\ \A j, k \in 1..Len(plan) : j /= k => plan[j].dst /= plan[k].dst
        /\ \A k \in 1..Len(plan) : plan[k].dst \notin DOMAIN fs

\* The preferred destination of an asset: <base><suffix>, for a cover
\* <base>.cover<suffix>
PreferredDst(kind, src) ==
    Join(src.dir, PlainBase \o (IF kind = "cover" THEN CoverInfix ELSE << >>) \o Suffix(src.name))

\* The preferred destination p with the smallest disambiguator k >= 2 whose
\* name is neither in the folders f nor among the destinations taken
FirstFree(f, taken, p) ==
    LET free(q) == q \notin DOMAIN f /\ q \notin taken
        k == CHOOSE m \in 2..(Cardinality(DOMAIN f) + Cardinality(taken) + 2) :
                 /\ free(WithDisambiguator(p, m))
                 /\ \A j \in 2..(m - 1) : ~free(WithDisambiguator(p, j))
    IN  WithDisambiguator(p, k)

\* C7: an audio file audio.mp4 whose preferred destination exists in the
\* folder is still planned, to the preferred name with the first free __k;
\* and an op whose preferred destination is the dst of an earlier op of the
\* plan has the preferred name with the first free __k as its dst.
DisambiguatedWhenTaken ==
    FreshPlan =>
        /\ \A n \in 1..Len(manifest) :
             LET src == Join(manifest[n].short_id, AudioStem \o ExtMp4)
                 pref == PreferredDst("audio", src)
             IN  (src \in DOMAIN fs /\ pref \in DOMAIN fs) =>
                    \E k \in 1..Len(plan) :
                        plan[k].src = src /\ plan[k].dst = FirstFree(fs, {}, pref)
        /\ \A k \in 1..Len(plan) :
             LET pref == PreferredDst(plan[k].kind, plan[k].src)
                 earlier == { plan[j].dst : j \in 1..(k - 1) }
             IN  pref \in earlier => plan[k].dst = FirstFree(fs, earlier, pref)

\* C8: an undo makes its system calls in the reverse order of the journal: a
\* call for a record is never followed by a call for a record further down
\* the journal.
UndoInReverseOrder ==
    run.kind = "undo" =>
        \A a, b \in 1..Len(acted) : a < b => acted[a] >= acted[b]

\* C8, witness: undo_rename_from_log has made system calls for two records,
\* the later record of the journal first
UndoneTwoRecords ==
    /\ run.kind = "undo" /\ run.script = "tool"
    /\ Len(acted) >= 2
    /\ acted[1] > acted[Len(acted)]

\* C9: once an undo (of either script) is through with a record whose dst
\* existed, the content dst had is found at src or at dst.
AuthoritativeContentKept ==
    (run.kind = "undo" /\ auth /= NoAuth /\ pc \in {"undo", "lundo", "idle"}) =>
        \E p \in {auth.src, auth.dst} :
            PathExists(fs, p) /\ Stat(fs, p).data = auth.data

\* C10: when the src of a record is still an entry of the folder after the
\* cleanup step of undo_rename_from_log, the step that follows changes
\* nothing: dst is not renamed onto src.  In undo_from_log, an existing src
\* is left as it is.
OccupiedSourceNotOverwritten ==
    [][ /\ (pc = "undo_move" /\ ~run.dry /\ Entry.src \in DOMAIN fs) => fs' = fs
        /\ (pc = "lundo" /\ i <= Len(entries) /\ PathExists(fs, Entry.src)) =>
              (Entry.src \in DOMAIN fs' /\ fs'[Entry.src] = fs[Entry.src]) ]_vars

\* The sequence s is the start of the sequence t
IsPrefix(s, t) == Len(s) <= Len(t) /\ \A k \in 1..Len(s) : s[k] = t[k]

\* C11: when an undo (of either script) reaches a record whose dst does not
\* exist, nothing in the folders changes, whatever is at src, and the undo
\* goes on with the next record.
MissingDstTouchesNothing ==
    [][ (pc \in {"undo", "lundo"} /\ i <= Len(entries) /\ ~PathExists(fs, Entry.dst))
        => (fs' = fs /\ Disk' = Disk /\ pc' = pc /\ i' = i + 1) ]_vars

\* C11, witness: undo_rename_from_log has returned; it made no system call
\* for a record whose dst was missing and has renamed back a record that
\* stands before it in the journal
SkippedMissingThenUndone ==
    /\ run.kind = "undo" /\ run.script = "tool" /\ ~run.dry
    /\ pc = "idle" /\ run.outcome = "returned"
    /\ \E k \in 1..Len(journal) :
         /\ k \notin Range(acted)
         /\ journal[k].dst \notin DOMAIN fs
         /\ \E a \in Range(acted) : a < k /\ journal[a].src \in DOMAIN fs

\* C12: every step keeps what the journal holds as the start of what it
\* holds afterwards and never removes the file; a step of an undo leaves the
\* journal as it is.
JournalAppendOnly ==
    [][ /\ IsPrefix(journal, journal')
        /\ logFile => logFile'
        /\ (run'.kind = "undo") => (journal' = journal /\ logFile' = logFile) ]_vars

\* C12, witness: a second rename has appended a record to a journal that
\* held a record of an earlier run
AppendedToEarlierJournal ==
    /\ run.kind = "rename" /\ run.jstart >= 1 /\ Appended >= 1

\* C13: no step of a rename invocation of main without --apply, whatever its
\* other flags (--undo among them), changes anything on disk.
RenameWithoutApplyChangesNothing ==
    [][ (call'.fn = "main" /\ call'.cmd = "rename" /\ ~call'.apply) => Disk' = Disk ]_vars

\* The keep mode a command line selects
SelectedKeepMode(a) == IF a.keep_link THEN "link" ELSE IF a.keep_copy THEN "copy" ELSE "none"

\* C14: with a manifest holding a pieces list and an existing pieces
\* directory, a rename invocation of main (without --undo) ends with exit
\* code 0, and the selected keep mode is the keep_mode of every planned op
\* and of every record the invocation has written.
RenameCompletesWithKeepMode ==
    ( /\ call.fn = "main" /\ call.cmd = "rename" /\ ~call.undo
      /\ call.meta = "ok" /\ call.pieces_dir /\ pc = "idle" )
    => /\ result = [exit |-> 0]
       /\ \A k \in 1..Len(plan) : plan[k].keep_mode = SelectedKeepMode(call)
       /\ \A k \in (run.jstart + 1)..Len(journal) :
            /\ HasAttr(journal[k], "keep_mode")
            /\ journal[k].keep_mode = SelectedKeepMode(call)

\* C15: an invocation of main whose manifest is missing, is not parseable or
\* has no pieces list, or whose pieces directory is missing, stops at once
\* with exit code 2 and changes nothing on disk.
BadInputExitsTwo ==
    [][ (call'.fn = "main" /\ (call'.meta /= "ok" \/ ~call'.pieces_dir))
        => (Disk' = Disk /\ pc' = "idle" /\ result' = [exit |-> 2]) ]_vars

\* C16: in apply_rename_ops with keep_mode link, after the rename of an op:
\* src is a hardlink to dst, else a relative symbolic link to dst, else
\* absent; dst keeps the renamed file in every case, and the run goes on to
\* the journal record of the op.
KeepLinkFallsBackAndGoesOn ==
    [][ (/\ run.script = "tool"
         /\ pc \in {"keep", "keep_link"}
         /\ plan[i].keep_mode = "link"
         /\ run'.outcome /= "killed")
        => LET src == plan[i].src
               dst == plan[i].dst
           IN  /\ fs'[dst] = fs[dst]
               /\ pc = "keep" =>
                     \/ src \in DOMAIN fs' /\ fs'[src] = fs[dst]
                     \/ src \in DOMAIN fs' /\ fs'[src] = Symlink(dst.name)
                     \/ src \notin DOMAIN fs' /\ ~run'.clean
               /\ pc = "keep_link" => pc' = "write" ]_vars

\* C17: safe_filename_base is idempotent: applied to its own result with the
\* same max_len and preserve_blanks it returns that result.
SanitizeIdempotent ==
    (call.fn = "safe_filename_base" /\ HasAttr(result, "again")) => result.again = result.value

\* C18: the result of safe_filename_base is never empty, holds none of the
\* illegal characters and is not, in any case of letters, a reserved device
\* name, also when the result was cut to max_len.
SanitizedNameIsPortable ==
    (call.fn = "safe_filename_base" /\ HasAttr(result, "value")) =>
        /\ result.value /= << >>
        /\ Range(result.value) \cap InvalidWin = {}
        /\ Upper(result.value) \notin WIN_RESERVED

EndsWith(s, t) == Len(t) <= Len(s) /\ SubSeq(s, Len(s) - Len(t) + 1, Len(s)) = t

\* The base of the example: jdoe - My_Song
ExampleBase == ExampleUser \o Separator \o <<"M","y","_","S","o","n","g">>

\* C19: for the piece abc123 with title "My Song", a folder with audio.mp4
\* and cover.jpg and username jdoe, without preserve_blanks, build_rename_ops
\* plans audio.mp4 -> "jdoe - My_Song.mp4" and cover.jpg ->
\* "jdoe - My_Song.cover.jpg"; every audio destination ends with the
\* extension of its source and every cover destination with ".cover" and
\* the extension of its source.
PlansExampleNames ==
    (call.fn = "build_rename_ops" /\ HasAttr(result, "value")) =>
        LET ops == result.value.ops IN
        /\ (call.username = ExampleUser /\ ~call.preserve_blanks) =>
             \A k \in 1..Len(call.pieces) :
                (call.pieces[k].short_id = ExampleId /\ call.pieces[k].title = ExampleTitle) =>
                    /\ \E j \in 1..Len(ops) :
                         /\ ops[j].kind = "audio"
                         /\ ops[j].src = Join(ExampleId, AudioStem \o ExtMp4)
                         /\ ops[j].dst = Join(ExampleId, ExampleBase \o ExtMp4)
                    /\ \E j \in 1..Len(ops) :
                         /\ ops[j].kind = "cover"
                         /\ ops[j].src = Join(ExampleId, CoverStem \o ExtJpg)
                         /\ ops[j].dst = Join(ExampleId, ExampleBase \o CoverInfix \o ExtJpg)
        /\ \A j \in 1..Len(ops) :
             /\ ops[j].kind = "audio" => EndsWith(ops[j].dst.name, Suffix(ops[j].src.name))
             /\ ops[j].kind = "cover" =>
                  EndsWith(ops[j].dst.name, CoverInfix \o Suffix(ops[j].src.name))

\* A piece that has a short_id and whose folder exists
ValidPiece(piece) == piece.short_id /= "" /\ piece.short_id \in dirs

\* C20: build_rename_ops gives one warning and no op for every piece without
\* short_id or without an existing folder, and the ops of the other pieces
\* are, in manifest order, the ops planned for the manifest without the
\* invalid pieces.
SkipsInvalidPieces ==
    (call.fn = "build_rename_ops" /\ HasAttr(result, "value")) =>
        LET ops == result.value.ops
            invalid == { k \in 1..Len(call.pieces) : ~ValidPiece(call.pieces[k]) }
            others == build_rename_ops(fs, dirs, SelectSeq(call.pieces, ValidPiece),
                                       call.username, call.preserve_blanks, call.keep_mode)
        IN  /\ \E r \in others :
                 /\ ops = r.ops
                 /\ Len(result.value.warnings) = Len(r.warnings) + Cardinality(invalid)
            /\ \A k \in invalid : \A j \in 1..Len(ops) :
                 ops[j].short_id /= call.pieces[k].short_id
            /\ \A j1 \in 1..Len(ops), j2 \in 1..Len(ops) :
                 j1 < j2 => \E k1 \in 1..Len(call.pieces), k2 \in 1..Len(call.pieces) :
                              /\ k1 <= k2
                              /\ call.pieces[k1].short_id = ops[j1].short_id
                              /\ call.pieces[k2].short_id = ops[j2].short_id

\* A manifest of three pieces, one without short_id or folder between two
\* pieces that both get their ops
InvalidPieceBetweenValidOnes ==
    /\ call.fn = "build_rename_ops"
    /\ HasAttr(result, "value")
    /\ Len(call.pieces) = 3
    /\ ValidPiece(call.pieces[1])
    /\ ~ValidPiece(call.pieces[2])
    /\ ValidPiece(call.pieces[3])
    /\ call.pieces[1].short_id /= call.pieces[3].short_id
    /\ \E j \in 1..Len(result.value.ops) : result.value.ops[j].short_id = call.pieces[1].short_id
    /\ \E j \in 1..Len(result.value.ops) : result.value.ops[j].short_id = call.pieces[3].short_id
    /\ Len(result.value.warnings) = 1

\* The names find_audio_file is said to try, in their order
ClaimedAudioNames(base) ==
    << base \o ExtMp4, base \o ExtM4a, base \o ExtAac,
       AudioStem \o ExtMp4, AudioStem \o ExtM4a, AudioStem \o ExtWav, AudioStem \o ExtAac,
       AudioStem \o ExtFlac, AudioStem \o ExtMp3, AudioStem \o ExtOgg >>

\* C21: find_audio_file returns the first existing name of <base>.mp4,
\* <base>.m4a, <base>.aac, audio.mp4, audio.m4a, audio.wav, audio.aac,
\* audio.flac, audio.mp3, audio.ogg; else a file of stem audio in any case of
\* letters; else the only file with an audio extension; else nothing.
FindsAudioInStatedOrder ==
    (call.fn = "find_audio_file" /\ HasAttr(result, "value")) =>
        LET names == ClaimedAudioNames(call.base)
            existing == { k \in 1..Len(names) : PathExists(fs, Join(call.folder, names[k])) }
            by_stem == { p \in Entries(fs, call.folder) :
                           IsFile(fs, p) /\ Lower(Stem(p.name)) = AudioStem }
            with_ext == { p \in Entries(fs, call.folder) :
                            IsFile(fs, p) /\ Lower(Suffix(p.name)) \in {ExtMp4, ExtM4a, ExtAac} }
        IN  IF existing /= {}
            THEN result.value = Join(call.folder,
                                     names[CHOOSE k \in existing : \A j \in existing : k <= j])
            ELSE IF by_stem /= {} THEN result.value \in by_stem
            ELSE IF Cardinality(with_ext) = 1 THEN result.value \in with_ext
            ELSE result.value = NoPath

\* C22: parse_tempo_to_tmpo returns nothing or an integer >= 1: the nearest
\* integer of a decimal string with a positive value, nothing for a string
\* that is no number or whose value is not positive; never 0 or less.
TempoIsNoneOrPositive ==
    (call.fn = "parse_tempo_to_tmpo" /\ HasAttr(result, "value")) =>
        LET s == call.tempo_value
            v == result.value
        IN  /\ v = << >> \/ (Len(v) = 1 /\ v[1] >= 1)
            /\ (IsFloat(s) /\ FloatOf(s).num > 0) =>
                 /\ Len(v) = 1
                 /\ 2 * (v[1] * FloatOf(s).den - FloatOf(s).num) <= FloatOf(s).den
                 /\ 2 * (FloatOf(s).num - v[1] * FloatOf(s).den) <= FloatOf(s).den
            /\ (~IsFloat(s) \/ FloatOf(s).num <= 0) => v = << >>

\* The lines of a text
RECURSIVE Lines(_)
Lines(s) ==
    IF \E k \in 1..Len(s) : s[k] = "\n"
    THEN LET k == CHOOSE j \in 1..Len(s) : s[j] = "\n" /\ \A h \in 1..(j - 1) : s[h] /= "\n"
         IN  << SubSeq(s, 1, k - 1) >> \o Lines(SubSeq(s, k + 1, Len(s)))
    ELSE << s >>

\* The lines of a comment under its Collaborators: header
ListUnderHeader(comment) ==
    LET ls == Lines(comment) IN
    IF \E k \in 1..Len(ls) : ls[k] = CollaboratorsHeader
    THEN LET k == CHOOSE j \in 1..Len(ls) : ls[j] = CollaboratorsHeader
         IN  SubSeq(ls, k + 1, Len(ls))
    ELSE << >>

\* names[k] for the k of keep, in order
RECURSIVE Restrict(_, _)
Restrict(names, keep) ==
    IF names = << >> THEN << >>
    ELSE Restrict(SubSeq(names, 1, Len(names) - 1), keep)
         \o (IF Len(names) \in keep THEN << names[Len(names)] >> ELSE << >>)

\* The names without the blank ones, without the ones equal to the username
\* and without the later ones of equal names, all in any case of letters
StatedList(names, username) ==
    Restrict(names, { k \in 1..Len(names) :
                        /\ Strip(names[k]) /= << >>
                        /\ Lower(names[k]) /= Lower(username)
                        /\ \A j \in 1..(k - 1) : Lower(names[j]) /= Lower(names[k]) })

\* C23 as stated: the list under the Collaborators: header is the input list
\* without blank names, without names equal to the username and without
\* later occurrences of equal names (all in any case of letters), in input
\* order; an empty list gives the description alone.
CollaboratorsAsGiven ==
    (call.fn = "build_comment" /\ HasAttr(result, "value")) =>
        LET stated == StatedList(call.collaborators, call.username) IN
        /\ ListUnderHeader(result.value) = stated
        /\ stated = << >> => result.value = RStrip(call.description, Whitespace)

\* C23, amended: the same of the names and the username without the
\* whitespace around them, and the list holds the names without it.
CollaboratorsTrimmed ==
    (call.fn = "build_comment" /\ HasAttr(result, "value")) =>
        LET stated == StatedList([k \in 1..Len(call.collaborators) |-> Strip(call.collaborators[k])],
                                 Strip(call.username))
        IN  /\ ListUnderHeader(result.value) = stated
            /\ stated = << >> => result.value = RStrip(call.description, Whitespace)

\* Alice, alice and Bob with username Alice: Bob alone is listed
AliceAliceBob ==
    /\ call.fn = "build_comment"
    /\ call.collaborators = << Alice, Lower(Alice), Bob >>
    /\ call.username = Alice
    /\ HasAttr(result, "value")
    /\ ListUnderHeader(result.value) = << Bob >>

\* C24: in apply mode apply_rename_ops processes every op of its plan: it
\* ends by returning, after the last op, whatever happened to the ops before
\* (dst taken, src gone, compat link or copy failed).
EveryOpProcessed ==
    ( /\ run.kind = "rename" /\ run.script = "tool" /\ ~run.dry
      /\ pc = "idle" /\ run.outcome \in {"returned", "exception"} )
    => (run.outcome = "returned" /\ i = Len(plan) + 1)

\* C25: an undo is not stopped by a line of the journal that is no
\* well-formed record: it returns after the last entry, its entries are
\* records all, and every record of the journal is among them.
BadLinesSkipped ==
    ( /\ run.kind = "undo" /\ run.script = "tool"
      /\ pc = "idle" /\ run.outcome \in {"returned", "exception"} /\ logFile )
    => /\ run.outcome = "returned"
       /\ i = Len(entries) + 1
       /\ \A k \in 1..Len(entries) : IsRecord(journal[entries[k]])
       /\ \A k \in 1..Len(journal) :
            IsRecord(journal[k]) => \E j \in 1..Len(entries) : entries[j] = k

\* C26: after a rename plan has been applied, find_audio_file and
\* find_cover_file, called with the base of the piece, return the dst of
\* every audio op (of extension mp4, m4a or aac) and of every cover op that
\* was carried out, whatever the keep mode left at the old name.
RenamedFilesAreFound ==
    ( /\ run.kind = "rename" /\ ~run.dry
      /\ pc = "idle" /\ run.outcome \in {"returned", "exception"} )
    => \A k \in 1..Len(done) : \A j \in 1..Len(plan) :
         (plan[j].src = done[k].src /\ plan[j].dst = done[k].dst) =>
            /\ (plan[j].kind = "audio" /\ Lower(Suffix(plan[j].dst.name)) \in Range(AUDIO_EXTS))
                  => find_audio_file(fs, plan[j].short_id, PlainBase) = { plan[j].dst }
            /\ plan[j].kind = "cover"
                  => find_cover_file(fs, plan[j].short_id, PlainBase) = { plan[j].dst }

\* C27: after apply_rename_ops has applied a plan, build_rename_ops on the
\* same manifest and the folders as they are then returns no op, in every
\* keep mode: the rename that follows has an empty plan.
SecondPlanIsEmpty ==
    [][ ( /\ run.kind = "rename" /\ run.script = "tool" /\ ~run.dry
          /\ pc = "idle" /\ run.outcome \in {"returned", "exception"}
          /\ nruns' = nruns + 1
          /\ run'.kind = "rename" /\ run'.script = "tool" /\ run'.keep = run.keep )
        => plan' = << >> ]_vars

\* C28: with nothing else touching the folders and no system call failing,
\* after an undo run no record of the journal has its dst left, so that a
\* further undo run skips every record and changes nothing; and after a
\* rename by the tool followed by its undo the folders are as they were
\* before the rename.
UndoRepeatableAndRestoring ==
    ( /\ run.kind = "undo" /\ ~run.dry
      /\ pc = "idle" /\ run.outcome = "returned"
      /\ faults = 0 /\ nexternal = 0 )
    => /\ \A k \in 1..Len(journal) : ~PathExists(fs, journal[k].dst)
       /\ trip.stage = 2 => fs = trip.fs0

\* A record written with keep mode none
WrittenWithKeepNone(e) ==
    \/ HasAttr(e, "keep_compat") /\ ~e.keep_compat
    \/ HasAttr(e, "keep_link") /\ e.keep_link = "none"

\* C29: undo_rename_from_log deletes a file at the src of a record only if
\* it is a compat artifact made for that record: for a record written with
\* keep mode none, a file that is at src when the undo comes to the record
\* is neither deleted nor overwritten.
ForeignFileAtSrcKept ==
    [][ ( /\ run.kind = "undo" /\ run.script = "tool" /\ ~run.dry
          /\ pc \in {"undo", "undo_move"} /\ i <= Len(entries)
          /\ WrittenWithKeepNone(Entry)
          /\ Entry.src \in DOMAIN fs /\ fs[Entry.src].t = "file" )
        => (Entry.src \in DOMAIN fs' /\ fs'[Entry.src] = fs[Entry.src]) ]_vars
====
